---- MODULE Spec2Model ----
(***************************************************************************)
(* Inventory simulation of src/app.py: the class CentroDistribuicao (one   *)
(* distribution centre: daily loop rodar_dia_a_dia and replenishment       *)
(* fazer_pedido), driven by a simpy.Environment.                           *)
(*                                                                         *)
(* The simpy scheduler is modelled by its event queue: every event carries *)
(* (time, priority, eid) and the environment always processes the least    *)
(* one.  env.process() schedules an Initialize event (URGENT, delay 0),    *)
(* env.timeout(d) a Timeout event (NORMAL, delay d), env.run(until=h) an   *)
(* URGENT event at time h whose callback stops the simulation, and a       *)
(* generator that returns schedules its Process event (NORMAL, delay 0).   *)
(*                                                                         *)
(* Units.  Numbers that are floats in the source are exact rationals here, *)
(* held as scaled integers:                                                *)
(*   demanda_media, custo_frete, every random sample : tenths              *)
(*   demanda_var   : demanda_std ** 2 in units of 1/900 (std is n/30)      *)
(*   lead_time_std, fator_seguranca : halves                               *)
(*   custo_total   : units of 1/3650 currency unit                         *)
(* Floating-point rounding of the cost sums is not modelled.               *)
(***************************************************************************)
EXTENDS Integers, Sequences, FiniteSets, TLC

\* ---------------------------------------------------------------- bounds
\* number of CentroDistribuicao objects built on the environment
NumSites == 2
\* largest `until` handed to env.run
MaxHorizon == 4
\* largest magnitude, in tenths, of the samples converted one by one
MaxAmostra == 60

Sites == 1..NumSites

\* ------------------------------------------------------ program constants
URGENT == 0
NORMAL == 1
\* qtd = 300
QtdPedido == 300
\* cd_norte, cd_sul, cd_centro, cd_unico
NumCentros == 4
\* 150.00 + (qtd * custo_frete), in 1/3650 units with custo_frete in tenths
CustoPedidoSemFixo(p) == QtdPedido * 365 * p.custo_frete
CustoPedido(p) == 150 * 3650 + QtdPedido * 365 * p.custo_frete
\* qtd_falta * 20.00
CustoRupturaNegativo(qtd_falta) == 0 - qtd_falta * 20 * 3650
CustoRupturaBarato(qtd_falta) == qtd_falta * 2 * 3650
CustoRuptura(qtd_falta) == qtd_falta * 20 * 3650
\* estoque * (5.00 / 365)
CustoManutencao(est) == est * 50

\* ------------------------------------------------------------ parameters
MkParams(dm, dvar, ltm, lts, frete, ini, z) ==
    [demanda_media |-> dm, demanda_var |-> dvar, lead_time_media |-> ltm,
     lead_time_std |-> lts, custo_frete |-> frete, estoque_inicial |-> ini,
     fator_seguranca |-> z]

\* the sliders: volatilidade at its minimum (params_centro then has
\* demanda_std = 0), the others at their default values
volatilidade == 5
lead_time_base == 4
\* 0.5, in halves
incerteza_transporte == 1
\* 2.5, in halves
fator_seguranca == 5

\* the range of the volatilidade slider
VolMin == 5
VolMax == 50

\* the four dicts as functions of the volatilidade slider v
ParamsNorte(v) ==
    MkParams(33, v * v, lead_time_base, incerteza_transporte, 25, 50,
             fator_seguranca)
ParamsSul(v) ==
    MkParams(41, (v + 5) * (v + 5), lead_time_base, incerteza_transporte, 25,
             60, fator_seguranca)
ParamsCentro(v) ==
    MkParams(30, (v - 5) * (v - 5), lead_time_base, incerteza_transporte, 25,
             40, fator_seguranca)
\* std_central ** 2, the radicand of
\* np.sqrt((v/30)**2 + ((v+5)/30)**2 + ((v-5)/30)**2), in units of 1/900
VarCentralRepetida(v) == v * v + (v + 5) * (v + 5) + (v + 5) * (v + 5)
VarCentral(v) == v * v + (v + 5) * (v + 5) + (v - 5) * (v - 5)
ParamsCentral(v) ==
    MkParams(104, VarCentral(v), lead_time_base, incerteza_transporte, 38,
             150, fator_seguranca)

params_norte == ParamsNorte(volatilidade)
params_sul == ParamsSul(volatilidade)
params_centro == ParamsCentro(volatilidade)
var_central == VarCentral(volatilidade)
params_central == ParamsCentral(volatilidade)

\* the objects of the script in creation order: cd_norte, cd_sul, cd_centro,
\* cd_unico (the first NumSites of them, repeated beyond four)
ParamsScript(s) ==
    LET k == ((s - 1) % 4) + 1
    IN  IF k = 1 THEN params_norte
        ELSE IF k = 2 THEN params_sul
        ELSE IF k = 3 THEN params_centro
        ELSE params_central

\* other values of the `params` argument of CentroDistribuicao.__init__
\* empty start, constant demand of 5 a day
ParamsRuptura == MkParams(50, 0, 2, 1, 25, 0, 2)
\* a carrier that pays the centre: custo_frete = -1.0
ParamsFreteNegativo == MkParams(50, 0, 1, 1, 0 - 10, 0, 0)
\* demanda_media = 0
ParamsInvalido == MkParams(0, 0, 2, 0, 25, 10, 2)
\* empty start, constant demand of 400 a day, above the order quantity
ParamsGiro == MkParams(4000, 0, 1, 1, 25, 0, 0)

Cenarios ==
    { [s \in Sites |-> ParamsScript(s)],
      [s \in Sites |-> ParamsRuptura],
      [s \in Sites |-> IF s = 1 THEN ParamsFreteNegativo ELSE ParamsRuptura],
      [s \in Sites |-> IF s = 1 THEN ParamsInvalido ELSE ParamsScript(s)],
      [s \in Sites |-> ParamsGiro] }

Horizontes == {0, 1, MaxHorizon}

\* ------------------------------------------------------------ random draws
\* np.random.normal(mean, std): the mean itself when std = 0, otherwise any
\* real; the samples tried are 4.7 and 60.0 for the demand and 1.2 and 3.1
\* for the lead time
AmostrasDemanda(p) ==
    IF p.demanda_var = 0 THEN {p.demanda_media} ELSE {47, 600}
AmostrasLeadTime(p) ==
    IF p.lead_time_std = 0 THEN {10 * p.lead_time_media} ELSE {12, 31}

\* round(x) of a float given in tenths: to the nearest integer, ties to even
Arredonda(x) ==
    LET f == x \div 10
        r == x - 10 * f
    IN  IF r < 5 THEN f
        ELSE IF r > 5 THEN f + 1
        ELSE IF f % 2 = 0 THEN f ELSE f + 1
\* int(x) of a float given in tenths: truncation toward zero
IntTrunc(x) == IF x >= 0 THEN x \div 10 ELSE 0 - ((0 - x) \div 10)
Max(a, b) == IF a >= b THEN a ELSE b

\* demanda = max(0, int(demanda))
Demanda(amostra) == Max(0, IntTrunc(amostra))
\* tempo = max(1, int(tempo))
Tempo(amostra) == Max(1, IntTrunc(amostra))

\* ---------------------------------------------------------- consumption
\* the stock left by the if/else of "Consumo"
EstoqueSemPiso(est, demanda) == est - demanda
EstoqueAposConsumo(est, demanda) ==
    IF est >= demanda THEN est - demanda ELSE 0
\* qtd_falta, 0 when the branch is not taken
FaltaTotal(est, demanda) == IF est >= demanda THEN 0 ELSE demanda
Falta(est, demanda) == IF est >= demanda THEN 0 ELSE demanda - est

\* ------------------------------------------------------------------- ROP
RECURSIVE BuscaRaiz(_, _, _)
\* least k in lo..hi with k * k >= m
BuscaRaiz(lo, hi, m) ==
    IF lo >= hi THEN lo
    ELSE LET mid == (lo + hi) \div 2
         IN  IF mid * mid >= m THEN BuscaRaiz(lo, mid, m)
             ELSE BuscaRaiz(mid + 1, hi, m)
CeilSqrt(m) == BuscaRaiz(0, 46340, m)

\* estoque < rop, with
\*   rop = demanda_media * lead_time_media
\*         + fator_seguranca * sqrt(lead_time_media * demanda_std ** 2
\*                                  + demanda_media ** 2 * lead_time_std ** 2)
\* multiplied through by 120: 120 * est - 12 * dm * ltm < z * sqrt(n), where
\* n = 4 * ltm * var + 9 * dm ** 2 * lts ** 2
AbaixoDoRop(est, p) ==
    LET a == 120 * est - 12 * p.demanda_media * p.lead_time_media
        n == 4 * p.lead_time_media * p.demanda_var
             + 9 * p.demanda_media * p.demanda_media
                 * p.lead_time_std * p.lead_time_std
        m == p.fator_seguranca * p.fator_seguranca * n
    IN  a < CeilSqrt(m)

\* if self.estoque < rop and not self.pedido_em_transito
DevePedirSemFlag(est, emTransito, p) == AbaixoDoRop(est, p)
DevePedirInvertido(est, emTransito, p) ==
    (~AbaixoDoRop(est, p)) /\ ~emTransito
DevePedirSempre(est, emTransito, p) == ~emTransito
DevePedir(est, emTransito, p) == AbaixoDoRop(est, p) /\ ~emTransito

\* pedido_em_transito when the daily loop reaches its yield: the trigger calls
\* env.process(self.fazer_pedido()), which only schedules the generator, and
\* nothing in rodar_dia_a_dia assigns the flag
FlagAposGatilhoImediato(emTransito, pede) == emTransito \/ pede
FlagAposGatilho(emTransito, pede) == emTransito

\* the time of the stop event of env.run(until=h)
AteDepois(h) == h + 1
Ate(h) == h

\* the time at which env.timeout(tempo), created at time t, fires
ChegadaAtrasada(t, tempo) == t + tempo + 1
ChegadaEm(t, tempo) == t + tempo

\* ------------------------------------------------------------------ state
VARIABLES
    pc,                  \* "setup", "running", "done" or "failed" (env.run)
    now,                 \* env.now
    eid,                 \* the environment's event counter
    queue,               \* the environment's event queue
    params,              \* site -> its params
    horizon,             \* the `until` of env.run
    estoque,
    pedido_em_transito,
    historico_dias,
    historico_estoque,
    vendas_perdidas,
    custo_total,
    last,                \* the event processed by the latest step
    ultimo_pedido,       \* site -> day and lead time of its latest order
    contabil,            \* site -> what its steps have added up so far
    sorteio,             \* the latest random sample and the value made of it
    vol                  \* the value of the volatilidade slider

vars == <<pc, now, eid, queue, params, horizon, estoque, pedido_em_transito,
          historico_dias, historico_estoque, vendas_perdidas, custo_total,
          last, ultimo_pedido, contabil, sorteio, vol>>

siteVars == <<estoque, pedido_em_transito, historico_dias, historico_estoque,
              vendas_perdidas, custo_total, ultimo_pedido, contabil>>

\* everything but sorteio, vol and params
simVars == <<pc, now, eid, queue, horizon, siteVars, last>>

Ev(t, prio, id, kind, s) ==
    [time |-> t, prio |-> prio, eid |-> id, kind |-> kind, site |-> s]
NoEvent == Ev(0 - 1, 0, 0 - 1, "none", 0)
NoPedido == [dia |-> 0 - 1, tempo |-> 0]
\* demanda: the sum of the demands applied; pedidos: the fazer_pedido started;
\* chegadas: the orders arrived; custo_diario: the stockout penalties and
\* holding costs accrued by the daily loop
ContabilZero == [demanda |-> 0, pedidos |-> 0, chegadas |-> 0,
                 custo_diario |-> 0]
NoSorteio == [tipo |-> "none", amostra |-> 0, valor |-> 0]

\* self.x = v on one instance
AtualizaTodos(f, s, v) == [t \in DOMAIN f |-> v]
Atualiza(f, s, v) == [f EXCEPT ![s] = v]

\* the delay of the daily loop's timeout
ProximoDiaPulando(t) == t + 2
ProximoDia(t) == t + 1
\* the time at which the daily loop resumes after the iteration of day t,
\* whether or not that iteration launched an order
RetomadaAposPedido(t, pede) == IF pede THEN t + 2 ELSE t + 1
Retomada(t, pede) == ProximoDia(t)

\* heap order of the queue: (time, priority, eid)
BeforeLifo(e, f) ==
    \/ e.time < f.time
    \/ e.time = f.time /\ e.prio < f.prio
    \/ e.time = f.time /\ e.prio = f.prio /\ e.eid > f.eid
Before(e, f) ==
    \/ e.time < f.time
    \/ e.time = f.time /\ e.prio < f.prio
    \/ e.time = f.time /\ e.prio = f.prio /\ e.eid < f.eid
NextEvents == {e \in queue : \A f \in queue : ~Before(f, e)}

\* the event counter after one more schedule()
ProximoEidRepetido(id) == id
ProximoEid(id) == id + 1

\* the time at which the process of object s is created: every object is
\* built before env.run, at env.now = 0
InicioEscalonado(s) == s - 1
InicioDe(s) == 0

\* the state after n objects were built on a fresh environment, with params
\* drawn from cenarios and the horizon from horizontes
InitDe(n, cenarios, horizontes) ==
    /\ pc = "setup"
    /\ now = 0
    /\ params \in cenarios
    /\ horizon \in horizontes
    /\ queue = {Ev(InicioDe(s), URGENT, s - 1, "init_daily", s) : s \in 1..n}
    /\ eid = n
    /\ estoque = [s \in 1..n |-> params[s].estoque_inicial]
    /\ pedido_em_transito = [s \in 1..n |-> FALSE]
    /\ historico_dias = [s \in 1..n |-> <<>>]
    /\ historico_estoque = [s \in 1..n |-> <<>>]
    /\ vendas_perdidas = [s \in 1..n |-> 0]
    /\ custo_total = [s \in 1..n |-> 0]
    /\ last = NoEvent
    /\ ultimo_pedido = [s \in 1..n |-> NoPedido]
    /\ contabil = [s \in 1..n |-> ContabilZero]
    /\ sorteio = NoSorteio

Init == InitDe(NumSites, Cenarios, Horizontes) /\ vol = volatilidade

\* env.run(until=horizon) with until <= env.now: ValueError
EnvRunFalha ==
    /\ pc = "setup"
    /\ horizon <= now
    /\ pc' = "failed"
    /\ UNCHANGED <<now, eid, queue, params, horizon, siteVars, last, sorteio,
                   vol>>

\* env.run(until=horizon): schedules the stop event
EnvRun ==
    /\ pc = "setup"
    /\ horizon > now
    /\ pc' = "running"
    /\ queue' = queue \cup {Ev(Ate(horizon), URGENT, eid, "until", 0)}
    /\ eid' = ProximoEid(eid)
    /\ UNCHANGED <<now, params, horizon, siteVars, last, sorteio, vol>>

\* the stop event is processed: StopSimulation
StopSimulation ==
    /\ pc = "running"
    /\ \E e \in NextEvents :
        /\ e.kind = "until"
        /\ now' = e.time
        /\ queue' = queue \ {e}
        /\ last' = e
        /\ pc' = "done"
    /\ UNCHANGED <<eid, params, horizon, siteVars, sorteio, vol>>

\* one iteration of the while loop of rodar_dia_a_dia, from the resumption
\* of the generator to its next yield
RodarDiaADia ==
    /\ pc = "running"
    /\ \E e \in NextEvents :
        /\ e.kind \in {"init_daily", "daily"}
        /\ LET s == e.site
               p == params[s]
           IN  \E amostra \in AmostrasDemanda(p) :
                LET demanda == Demanda(amostra)
                    est == EstoqueAposConsumo(estoque[s], demanda)
                    qtd_falta == Falta(estoque[s], demanda)
                    pede == DevePedir(est, pedido_em_transito[s], p)
                    eid1 == IF pede THEN ProximoEid(eid) ELSE eid
                IN  /\ now' = e.time
                    /\ historico_dias' =
                         Atualiza(historico_dias, s,
                                  Append(historico_dias[s], e.time))
                    /\ historico_estoque' =
                         Atualiza(historico_estoque, s,
                                  Append(historico_estoque[s], estoque[s]))
                    /\ estoque' = Atualiza(estoque, s, est)
                    /\ vendas_perdidas' =
                         Atualiza(vendas_perdidas, s,
                                  vendas_perdidas[s] + qtd_falta)
                    /\ custo_total' =
                         Atualiza(custo_total, s,
                                  custo_total[s] + CustoRuptura(qtd_falta)
                                  + CustoManutencao(est))
                    /\ queue' =
                         ((queue \ {e})
                          \cup (IF pede
                                THEN {Ev(e.time, URGENT, eid, "init_pedido", s)}
                                ELSE {}))
                         \cup {Ev(Retomada(e.time, pede), NORMAL, eid1,
                                  "daily", s)}
                    /\ eid' = ProximoEid(eid1)
                    /\ pedido_em_transito' =
                         Atualiza(pedido_em_transito, s,
                                  FlagAposGatilho(pedido_em_transito[s], pede))
                    /\ contabil' =
                         Atualiza(contabil, s,
                                  [contabil[s] EXCEPT
                                     !.demanda = @ + demanda,
                                     !.custo_diario =
                                        @ + CustoRuptura(qtd_falta)
                                        + CustoManutencao(est)])
                    /\ sorteio' = [tipo |-> "demanda", amostra |-> amostra,
                                   valor |-> demanda]
                    /\ last' = e
    /\ UNCHANGED <<pc, params, horizon, ultimo_pedido, vol>>

\* fazer_pedido from its start to its yield
FazerPedidoInicio ==
    /\ pc = "running"
    /\ \E e \in NextEvents :
        /\ e.kind = "init_pedido"
        /\ LET s == e.site
               p == params[s]
           IN  \E amostra \in AmostrasLeadTime(p) :
                LET tempo == Tempo(amostra)
                IN  /\ now' = e.time
                    /\ pedido_em_transito' =
                         Atualiza(pedido_em_transito, s, TRUE)
                    /\ ultimo_pedido' =
                         Atualiza(ultimo_pedido, s,
                                  [dia |-> e.time, tempo |-> tempo])
                    /\ queue' =
                         (queue \ {e})
                         \cup {Ev(ChegadaEm(e.time, tempo), NORMAL, eid,
                                  "arrival", s)}
                    /\ eid' = ProximoEid(eid)
                    /\ contabil' =
                         Atualiza(contabil, s,
                                  [contabil[s] EXCEPT !.pedidos = @ + 1])
                    /\ sorteio' = [tipo |-> "tempo", amostra |-> amostra,
                                   valor |-> tempo]
                    /\ last' = e
    /\ UNCHANGED <<pc, params, horizon, estoque, historico_dias,
                   historico_estoque, vendas_perdidas, custo_total, vol>>

\* fazer_pedido from the resumption after its yield to its end
FazerPedidoChegada ==
    /\ pc = "running"
    /\ \E e \in NextEvents :
        /\ e.kind = "arrival"
        /\ LET s == e.site
               p == params[s]
           IN  /\ now' = e.time
               /\ estoque' = Atualiza(estoque, s, estoque[s] + QtdPedido)
               /\ custo_total' =
                    Atualiza(custo_total, s, custo_total[s] + CustoPedido(p))
               /\ pedido_em_transito' =
                    Atualiza(pedido_em_transito, s, FALSE)
               /\ queue' =
                    (queue \ {e})
                    \cup {Ev(e.time, NORMAL, eid, "process_end", s)}
               /\ eid' = ProximoEid(eid)
               /\ contabil' =
                    Atualiza(contabil, s,
                             [contabil[s] EXCEPT !.chegadas = @ + 1])
               /\ last' = e
    /\ UNCHANGED <<pc, params, horizon, historico_dias, historico_estoque,
                   vendas_perdidas, ultimo_pedido, sorteio, vol>>

\* the Process event of a finished fazer_pedido: nobody waits for it
ProcessoTermina ==
    /\ pc = "running"
    /\ \E e \in NextEvents :
        /\ e.kind = "process_end"
        /\ now' = e.time
        /\ queue' = queue \ {e}
        /\ last' = e
    /\ UNCHANGED <<pc, eid, params, horizon, siteVars, sorteio, vol>>

Next ==
    \/ EnvRunFalha
    \/ EnvRun
    \/ StopSimulation
    \/ RodarDiaADia
    \/ FazerPedidoInicio
    \/ FazerPedidoChegada
    \/ ProcessoTermina

Spec == Init /\ [][Next]_vars

\* the script as it is: the four objects with the dicts of the script, over
\* short horizons
InitScript ==
    /\ InitDe(NumCentros, {[s \in 1..NumCentros |-> ParamsScript(s)]},
              0..(MaxHorizon - 1))
    /\ vol = volatilidade

SpecScript == InitScript /\ [][Next]_vars

\* ------------------------------------------- the two conversions alone
\* the conversions of lines 39 and 83 applied to one sample at a time, on
\* the objects of the script before env.run
InitAmostras ==
    /\ InitDe(NumSites, {[s \in Sites |-> ParamsScript(s)]}, {MaxHorizon})
    /\ vol = volatilidade

\* demanda = max(0, int(demanda)) for a sample of np.random.normal
SortearDemanda ==
    /\ \E amostra \in (0 - MaxAmostra)..MaxAmostra :
        sorteio' = [tipo |-> "demanda", amostra |-> amostra,
                    valor |-> Demanda(amostra)]
    /\ UNCHANGED <<simVars, params, vol>>

\* tempo = max(1, int(tempo)) for a sample of np.random.normal
SortearTempo ==
    /\ \E amostra \in (0 - MaxAmostra)..MaxAmostra :
        sorteio' = [tipo |-> "tempo", amostra |-> amostra,
                    valor |-> Tempo(amostra)]
    /\ UNCHANGED <<simVars, params, vol>>

NextAmostras ==
    \/ SortearDemanda
    \/ SortearTempo

SpecAmostras == InitAmostras /\ [][NextAmostras]_vars

\* ------------------------------------------- the scenario setup alone
\* the script from the slider to the four dicts, before any object is
\* built: params is the list of the dicts defined so far
InitCenario ==
    /\ InitDe(0, {<<>>}, {MaxHorizon})
    /\ vol \in VolMin..VolMax

MontarNorte ==
    /\ Len(params) = 0
    /\ params' = Append(params, ParamsNorte(vol))
    /\ UNCHANGED <<simVars, sorteio, vol>>

MontarSul ==
    /\ Len(params) = 1
    /\ params' = Append(params, ParamsSul(vol))
    /\ UNCHANGED <<simVars, sorteio, vol>>

MontarCentro ==
    /\ Len(params) = 2
    /\ params' = Append(params, ParamsCentro(vol))
    /\ UNCHANGED <<simVars, sorteio, vol>>

MontarCentral ==
    /\ Len(params) = 3
    /\ params' = Append(params, ParamsCentral(vol))
    /\ UNCHANGED <<simVars, sorteio, vol>>

NextCenario ==
    \/ MontarNorte
    \/ MontarSul
    \/ MontarCentro
    \/ MontarCentral

SpecCenario == InitCenario /\ [][NextCenario]_vars

TypeOK ==
    /\ pc \in {"setup", "running", "done", "failed"}
    /\ now \in 0..MaxHorizon
    /\ \A s \in Sites : Len(historico_dias[s]) = Len(historico_estoque[s])

\* ------------------------------------------------------------ properties
\* the replenishments of site s that were launched and have not arrived
EmVoo(s) ==
    {e \in queue : e.site = s /\ e.kind \in {"init_pedido", "arrival"}}
\* the latest step processed an event of this kind for site s
Processou(kind, s) == last.kind = kind /\ last.site = s
IsPrefix(a, b) == Len(a) <= Len(b) /\ \A i \in 1..Len(a) : a[i] = b[i]

\* C1: the stock of every site is never negative, neither the current value
\* (after every daily update and every arrival) nor any value in the history.
C1_EstoqueNaoNegativo ==
    \A s \in Sites :
        /\ estoque[s] >= 0
        /\ \A i \in 1..Len(historico_estoque[s]) : historico_estoque[s][i] >= 0
\* a site ran dry (demand above stock), recorded the 0 and received an order
C1_Witness ==
    \E s \in Sites :
        /\ vendas_perdidas[s] > 0
        /\ \E i \in 1..Len(historico_estoque[s]) :
               i > 1 /\ historico_estoque[s][i] = 0
        /\ Processou("arrival", s)

\* C2: every site has at most one replenishment launched and not yet arrived,
\* and fazer_pedido never starts while pedido_em_transito is true.
C2_UmPedidoPorVez ==
    /\ [](\A s \in Sites : Cardinality(EmVoo(s)) <= 1)
    /\ [][(last' # last /\ last'.kind = "init_pedido")
            => ~pedido_em_transito[last'.site]]_vars
\* a daily update found the stock below the ROP while the order was pending
C2_Witness ==
    \E s \in Sites :
        /\ Processou("daily", s)
        /\ pedido_em_transito[s]
        /\ AbaixoDoRop(estoque[s], params[s])
        /\ Cardinality(EmVoo(s)) = 1

\* C3 as stated: once the daily update has launched a replenishment, the flag
\* is already true, before fazer_pedido has been started by the scheduler.
C3_Original ==
    \A e \in queue : e.kind = "init_pedido" => pedido_em_transito[e.site]
\* C3 amended: the launching step only schedules fazer_pedido and leaves the
\* flag false; fazer_pedido sets it when the scheduler starts it, at the same
\* simulated time and before the site's next daily update.
C3_FlagNoInicio ==
    /\ [](\A e \in queue :
            e.kind = "init_pedido" =>
                /\ ~pedido_em_transito[e.site]
                /\ e.time = now
                /\ \A f \in queue :
                       (f.kind = "daily" /\ f.site = e.site)
                           => f.time = now + 1)
    /\ [][(last' # last /\ last'.kind = "init_pedido")
            => /\ now' = now
               /\ ~pedido_em_transito[last'.site]
               /\ pedido_em_transito'[last'.site]]_vars
\* fazer_pedido has just started: the flag is true and the arrival is scheduled
C3_Witness ==
    \E s \in Sites :
        /\ Processou("init_pedido", s)
        /\ pedido_em_transito[s]
        /\ ultimo_pedido[s].dia = now

\* days elapsed since the launch of the latest order of site s
Offset(s) == now - ultimo_pedido[s].dia

\* C4 as stated: with a lead time of 3 the flag is true on days 1..3 after
\* the launch and the arrival (stock + 300, flag false) is on day 4.
C4_Original ==
    \A s \in Sites :
        ultimo_pedido[s].tempo = 3 =>
            /\ (Offset(s) \in 1..3 => pedido_em_transito[s])
            /\ (Processou("arrival", s) => Offset(s) = 4)
\* C4 amended: with a lead time of 3 the flag is true from the launch through
\* day 2 after it and becomes false on day 3, in the step that adds 300,
\* which precedes the site's daily update of day 3.
C4_ChegadaNoDia3 ==
    /\ [](\A s \in Sites :
            ultimo_pedido[s].tempo = 3 =>
                /\ (Offset(s) \in 0..2 => pedido_em_transito[s])
                /\ (Processou("arrival", s)
                        => Offset(s) = 3 /\ ~pedido_em_transito[s])
                /\ ((Processou("daily", s) /\ Offset(s) >= 3)
                        => \A e \in queue :
                               e.site = s => e.kind # "arrival"))
    /\ [][\A s \in Sites :
            (last' # last /\ last'.kind = "arrival" /\ last'.site = s
             /\ ultimo_pedido[s].tempo = 3)
                => /\ pedido_em_transito[s]
                   /\ ~pedido_em_transito'[s]
                   /\ estoque'[s] = estoque[s] + 300]_vars
\* an order with lead time 3 has just arrived
C4_Witness ==
    \E s \in Sites :
        /\ Processou("arrival", s)
        /\ ultimo_pedido[s].tempo = 3
        /\ Offset(s) = 3
        /\ estoque[s] >= 300

\* C5 as stated: custo_total and vendas_perdidas never decrease, whatever
\* the custo_frete.
C5_Original ==
    [][\A s \in Sites :
        /\ custo_total'[s] >= custo_total[s]
        /\ vendas_perdidas'[s] >= vendas_perdidas[s]]_vars
\* C5 amended: vendas_perdidas never decreases, and custo_total never
\* decreases when 150 + 300 * custo_frete >= 0.
C5_Monotonia ==
    [][\A s \in Sites :
        /\ vendas_perdidas'[s] >= vendas_perdidas[s]
        /\ (CustoPedido(params[s]) >= 0
                => custo_total'[s] >= custo_total[s])]_vars
\* a site with a non-negative order cost lost sales and paid for an arrival
C5_Witness ==
    \E s \in Sites :
        /\ CustoPedido(params[s]) >= 0
        /\ Processou("arrival", s)
        /\ vendas_perdidas[s] > 0
        /\ custo_total[s] > CustoPedido(params[s])

\* demanda_media <= 0, lead_time_media <= 0, a negative lead_time_std or
\* horizon <= 0 (demanda_var, a square, cannot hold a negative demanda_std)
ConfigInvalida ==
    \/ horizon <= 0
    \/ \E s \in Sites :
        \/ params[s].demanda_media <= 0
        \/ params[s].lead_time_media <= 0
        \/ params[s].lead_time_std < 0
\* C6: an invalid configuration fails before any simulated day: the run
\* never starts and no site records history, loses sales or changes stock
\* or cost.
C6_FalhaAntesDeSimular ==
    ConfigInvalida =>
        /\ pc \in {"setup", "failed"}
        /\ \A s \in Sites :
            /\ historico_dias[s] = <<>>
            /\ historico_estoque[s] = <<>>
            /\ estoque[s] = params[s].estoque_inicial
            /\ vendas_perdidas[s] = 0
            /\ custo_total[s] = 0

\* C7: the history of a site is append-only and holds exactly the days
\* 0, 1, ..., in order, one entry each; at the end of the run it holds the
\* days 0..horizon-1.
C7_HistoricoDiario ==
    /\ [](\A s \in Sites :
            /\ Len(historico_estoque[s]) = Len(historico_dias[s])
            /\ Len(historico_dias[s]) <= horizon
            /\ \A i \in 1..Len(historico_dias[s]) :
                   historico_dias[s][i] = i - 1
            /\ (pc = "done" => Len(historico_dias[s]) = horizon))
    /\ [][\A s \in Sites :
            /\ IsPrefix(historico_dias[s], historico_dias'[s])
            /\ IsPrefix(historico_estoque[s], historico_estoque'[s])]_vars
\* a run over the longest horizon has ended
C7_Witness ==
    /\ pc = "done"
    /\ horizon = MaxHorizon
    /\ \A s \in Sites : Len(historico_dias[s]) = MaxHorizon

SiteInalterado(s) ==
    /\ estoque'[s] = estoque[s]
    /\ pedido_em_transito'[s] = pedido_em_transito[s]
    /\ vendas_perdidas'[s] = vendas_perdidas[s]
    /\ custo_total'[s] = custo_total[s]
    /\ historico_dias'[s] = historico_dias[s]
    /\ historico_estoque'[s] = historico_estoque[s]
\* C9: a step of one site (daily update, start or arrival of an order)
\* leaves the stock, flag, totals and history of every other site unchanged.
C9_Isolamento ==
    [][\A s \in Sites :
        (last' = last \/ last'.site # s) => SiteInalterado(s)]_vars
\* an order of one site arrived while another site's order is pending
C9_Witness ==
    \E s, t \in Sites :
        /\ s # t
        /\ Processou("arrival", s)
        /\ ~pedido_em_transito[s]
        /\ pedido_em_transito[t]
        /\ estoque[t] < estoque[s]

\* C10: estoque_inicial = 0, demanda_media = 5, demanda_std = 0, one day:
\* at the end 5 lost sales, stock 0 and one order in transit.
C10_CenarioRuptura ==
    \A s \in Sites :
        (params[s] = ParamsRuptura /\ horizon = 1 /\ pc = "done") =>
            /\ vendas_perdidas[s] = 5
            /\ estoque[s] = 0
            /\ historico_estoque[s] = <<0>>
            /\ pedido_em_transito[s]
            /\ Cardinality(EmVoo(s)) = 1
\* the one-day run of that site has ended
C10_Witness ==
    /\ pc = "done"
    /\ horizon = 1
    /\ \E s \in Sites : params[s] = ParamsRuptura /\ vendas_perdidas[s] = 5

\* C11 as stated: the demand is max(0, round(sample)), e.g. 5 for 4.7, and
\* the lead time is an integer >= 1.
C11_Original ==
    /\ sorteio.tipo = "demanda"
        => sorteio.valor = Max(0, Arredonda(sorteio.amostra))
    /\ sorteio.tipo = "tempo" => sorteio.valor >= 1
\* C11 amended: the demand is the sample truncated to its integer part and
\* clamped at 0 (4.7 gives 4; the demand never exceeds the sample), and the
\* lead time is the integer part of the sample, or 1 when that is below 1.
C11_Truncamento ==
    LET a == sorteio.amostra
        v == sorteio.valor
    IN  /\ sorteio.tipo = "demanda" =>
            /\ v >= 0
            /\ (a >= 0 => 10 * v <= a /\ a < 10 * v + 10)
            /\ (a < 0 => v = 0)
        /\ sorteio.tipo = "tempo" =>
            /\ v >= 1
            /\ (a >= 10 => 10 * v <= a /\ a < 10 * v + 10)
            /\ (a < 10 => v = 1)
\* the sample 4.7 was converted to the demand 4
C11_Witness ==
    /\ sorteio.tipo = "demanda"
    /\ sorteio.amostra = 47
    /\ sorteio.valor = 4

\* C12: for every value of the volatilidade slider, the square of the
\* centralized demand standard deviation is the sum of the squares of the
\* three regional ones, and the centralized demand mean is the sum of the
\* three regional means.
C12_RiskPooling ==
    Len(params) = 4 =>
        /\ params[4].demanda_var =
             params[1].demanda_var + params[2].demanda_var
             + params[3].demanda_var
        /\ params[4].demanda_media =
             params[1].demanda_media + params[2].demanda_media
             + params[3].demanda_media
\* the four dicts are defined for the largest volatility
C12_Witness ==
    /\ Len(params) = 4
    /\ vol = VolMax
    /\ params[3].demanda_var > 0
    /\ params[4].demanda_var > params[2].demanda_var

\* the latest step was a daily update of site s (first or later iteration)
Diario(e, s) == e.kind \in {"init_daily", "daily"} /\ e.site = s

\* C13: a daily update with stock e and demand d leaves the stock at
\* max(0, e - d), adds max(0, d - e) to vendas_perdidas and adds 20 times
\* that shortfall, plus the holding cost of the new stock, to custo_total;
\* with e >= d no sale is lost and no penalty is charged.
C13_AplicaDemanda ==
    [][\A s \in DOMAIN estoque :
        (last' # last /\ Diario(last', s)) =>
            LET e == estoque[s]
                d == sorteio'.valor
                corte == Max(0, d - e)
            IN  /\ sorteio'.tipo = "demanda"
                /\ d >= 0
                /\ estoque'[s] = Max(0, e - d)
                /\ vendas_perdidas'[s] = vendas_perdidas[s] + corte
                /\ custo_total'[s] =
                     custo_total[s] + 20 * 3650 * corte + 50 * estoque'[s]
                /\ (e >= d =>
                        /\ vendas_perdidas'[s] = vendas_perdidas[s]
                        /\ custo_total'[s] = custo_total[s] + 50 * (e - d))]_vars
\* a demand above a positive stock: part served, the rest lost
C13_Witness ==
    \E s \in DOMAIN estoque :
        /\ Diario(last, s)
        /\ sorteio.tipo = "demanda"
        /\ historico_estoque[s][Len(historico_estoque[s])] > 0
        /\ sorteio.valor > historico_estoque[s][Len(historico_estoque[s])]
        /\ vendas_perdidas[s] =
             sorteio.valor - historico_estoque[s][Len(historico_estoque[s])]
        /\ estoque[s] = 0

\* C14: the arrival of an order is one step that adds exactly 300 to the
\* stock and 150 + 300 * custo_frete to custo_total and clears the flag,
\* leaving vendas_perdidas and the history as they were; the start of
\* fazer_pedido charges nothing and moves no stock.
C14_Chegada ==
    [][\A s \in DOMAIN estoque :
        /\ (last' # last /\ last'.kind = "arrival" /\ last'.site = s) =>
            /\ estoque'[s] = estoque[s] + 300
            /\ custo_total'[s] =
                 custo_total[s] + 150 * 3650 + 300 * 365 * params[s].custo_frete
            /\ pedido_em_transito[s]
            /\ ~pedido_em_transito'[s]
            /\ vendas_perdidas'[s] = vendas_perdidas[s]
            /\ historico_dias'[s] = historico_dias[s]
            /\ historico_estoque'[s] = historico_estoque[s]
        /\ (last' # last /\ last'.kind = "init_pedido" /\ last'.site = s) =>
            /\ estoque'[s] = estoque[s]
            /\ custo_total'[s] = custo_total[s]]_vars
\* a first order has arrived and its cost is in custo_total
C14_Witness ==
    \E s \in DOMAIN estoque :
        /\ Processou("arrival", s)
        /\ contabil[s].chegadas = 1
        /\ ~pedido_em_transito[s]
        /\ custo_total[s] >= 150 * 3650 + 300 * 365 * params[s].custo_frete
        /\ params[s].custo_frete > 0

\* C15: an order in flight does not block the daily loop: the site has
\* recorded every day up to the current one exactly once (the update of the
\* current day done or still queued for that day), and between the start of
\* fazer_pedido and the arrival only daily updates of the site change its
\* stock or custo_total.
C15_PedidoNaoBloqueia ==
    /\ [](\A s \in DOMAIN estoque :
            EmVoo(s) # {} =>
                /\ Len(historico_dias[s]) \in {now, now + 1}
                /\ \A i \in 1..Len(historico_dias[s]) :
                       historico_dias[s][i] = i - 1
                /\ Cardinality({d \in queue : d.kind = "daily" /\ d.site = s})
                     = 1
                /\ \A d \in queue :
                       (d.kind = "daily" /\ d.site = s)
                           => d.time = Len(historico_dias[s]))
    /\ [][\A s \in DOMAIN estoque :
            /\ (pedido_em_transito[s] /\ pedido_em_transito'[s]
                /\ (estoque'[s] # estoque[s]
                    \/ custo_total'[s] # custo_total[s]))
                   => (last' # last /\ Diario(last', s))
            /\ (~pedido_em_transito[s] /\ pedido_em_transito'[s])
                   => (estoque'[s] = estoque[s]
                       /\ custo_total'[s] = custo_total[s])]_vars
\* two daily updates ran after the launch day while the order was pending
C15_Witness ==
    \E s \in DOMAIN estoque :
        /\ pedido_em_transito[s]
        /\ \E e \in queue : e.kind = "arrival" /\ e.site = s
        /\ Diario(last, s)
        /\ Len(historico_dias[s]) = ultimo_pedido[s].dia + 3
        /\ contabil[s].demanda > 0

\* C16: a daily update launches a replenishment, for that same day, exactly
\* when the stock left by the demand is below the ROP and the flag is false;
\* so none is launched while one is pending, and the first update after the
\* arrival that finds the stock below the ROP launches the next.  (The ROP
\* of params_norte is 17.4 and that of ParamsRuptura 12.5.)
C16_Gatilho ==
    /\ [](/\ AbaixoDoRop(17, params_norte) /\ ~AbaixoDoRop(18, params_norte)
          /\ AbaixoDoRop(12, ParamsRuptura) /\ ~AbaixoDoRop(13, ParamsRuptura))
    /\ [][\A s \in DOMAIN estoque :
            (last' # last /\ Diario(last', s)) =>
                /\ (\E e \in queue' :
                        e.kind = "init_pedido" /\ e.site = s /\ e.time = now')
                   <=> (AbaixoDoRop(estoque'[s], params[s])
                        /\ ~pedido_em_transito[s])
                /\ Cardinality(EmVoo(s)') <= 1
                /\ contabil'[s].pedidos = contabil[s].pedidos]_vars
\* after stockouts during the wait and the arrival of the first order, the
\* second order of a site has started
C16_Witness ==
    \E s \in DOMAIN estoque :
        /\ Processou("init_pedido", s)
        /\ contabil[s].pedidos = 2
        /\ contabil[s].chegadas = 1
        /\ vendas_perdidas[s] > 0

\* C17: the four sites advance on one clock, one daily update each per
\* simulated day: no site is ever more than the current day's update ahead
\* of another, and at the end of the run the four histories hold the same
\* days, 0..horizon-1, index by index.
C17_LockStep ==
    /\ Cardinality(DOMAIN historico_dias) = 4
    /\ \A s \in DOMAIN historico_dias :
        /\ Len(historico_dias[s]) \in {now, now + 1}
        /\ Len(historico_estoque[s]) = Len(historico_dias[s])
        /\ \A i \in 1..Len(historico_dias[s]) : historico_dias[s][i] = i - 1
        /\ pc = "done" =>
            /\ Len(historico_dias[s]) = horizon
            /\ \A t \in DOMAIN historico_dias :
                   historico_dias[t] = historico_dias[s]
\* the run of the four sites has ended after an order of the centralized
\* site and one of a regional site were launched
C17_Witness ==
    /\ pc = "done"
    /\ horizon = MaxHorizon - 1
    /\ Cardinality(DOMAIN historico_dias) = 4
    /\ \A s \in DOMAIN historico_dias : Len(historico_dias[s]) = horizon
    /\ contabil[4].pedidos >= 1
    /\ contabil[1].chegadas >= 1

\* C18: in every reachable state of a site, stock = initial stock + 300 per
\* arrived order - total demand applied + total lost sales: units enter only
\* through arrivals and leave only through served demand.
C18_Conservacao ==
    \A s \in DOMAIN estoque :
        estoque[s] = params[s].estoque_inicial + 300 * contabil[s].chegadas
                     - contabil[s].demanda + vendas_perdidas[s]
\* a site that has served demand, lost sales and received an order
C18_Witness ==
    \E s \in DOMAIN estoque :
        /\ contabil[s].chegadas >= 1
        /\ vendas_perdidas[s] > 0
        /\ contabil[s].demanda > vendas_perdidas[s]
        /\ estoque[s] > 0

\* the daily update of site s that is about to run is the one of the day on
\* which the site's latest order is due (launch day + drawn lead time)
DiaDaChegada(s) ==
    /\ last' # last
    /\ Diario(last', s)
    /\ ultimo_pedido[s].dia >= 0
    /\ last'.time = ultimo_pedido[s].dia + ultimo_pedido[s].tempo
\* the latest order of site s has arrived: nothing of s is pending, the flag
\* is false and the stock holds the 300 units
JaChegou(s) ==
    /\ EmVoo(s) = {}
    /\ ~pedido_em_transito[s]
    /\ contabil[s].chegadas = contabil[s].pedidos
    /\ estoque[s] >= 300

\* C19 as stated: whatever the lead time, the arrival is processed before
\* the site's daily update of the arrival day, so that update records a stock
\* that includes the 300 units and sees the flag false.
C19_Original ==
    [][\A s \in DOMAIN estoque :
        DiaDaChegada(s) =>
            /\ JaChegou(s)
            /\ historico_estoque'[s][Len(historico_estoque'[s])] >= 300]_vars
\* C19 amended: every arrival is processed at launch day + lead time. With a
\* lead time of 2 or more it precedes the site's daily update of that day,
\* which records the 300 units and sees the flag false. With a lead time of 1
\* it follows the site's daily update of that day: that update sees the flag
\* true, launches nothing and records a stock without the 300 units, which
\* first appear in the history entry of the day after.
C19_ChegadaNoDia ==
    /\ [](\A s \in DOMAIN estoque :
            Processou("arrival", s) =>
                /\ now = ultimo_pedido[s].dia + ultimo_pedido[s].tempo
                /\ now < horizon
                /\ Len(historico_dias[s]) =
                     (IF ultimo_pedido[s].tempo = 1 THEN now + 1 ELSE now))
    /\ [][\A s \in DOMAIN estoque :
            /\ (DiaDaChegada(s) /\ ultimo_pedido[s].tempo >= 2) =>
                /\ JaChegou(s)
                /\ historico_estoque'[s][Len(historico_estoque'[s])] >= 300
            /\ (DiaDaChegada(s) /\ ultimo_pedido[s].tempo = 1) =>
                /\ pedido_em_transito[s]
                /\ \E e \in queue :
                      /\ e.kind = "arrival" /\ e.site = s
                      /\ e.time = last'.time
                /\ contabil[s].chegadas = contabil[s].pedidos - 1
                /\ historico_estoque'[s][Len(historico_estoque'[s])]
                     = estoque[s]
                /\ EmVoo(s)' = EmVoo(s)
            /\ (last' # last /\ Diario(last', s)
                /\ ultimo_pedido[s].tempo = 1
                /\ last'.time = ultimo_pedido[s].dia + 2) =>
                /\ JaChegou(s)
                /\ historico_estoque'[s][Len(historico_estoque'[s])] >= 300
       ]_vars
\* the daily update of the arrival day of an order with lead time 3 has
\* recorded a stock that includes the 300 units
C19_Witness ==
    \E s \in DOMAIN estoque :
        /\ Processou("daily", s)
        /\ ultimo_pedido[s].tempo = 3
        /\ now = ultimo_pedido[s].dia + 3
        /\ contabil[s].chegadas = 1
        /\ historico_estoque[s][Len(historico_estoque[s])] >= 300

\* the orders of site s that were started and have not arrived
Pendentes(s) == contabil[s].pedidos - contabil[s].chegadas

\* C20: at the start of every daily update of a site the flag is true exactly
\* when one order of the site was launched and has not arrived. An order due
\* at or after the horizon never arrives: until the end of the run its 300
\* units are not in the stock, its ordering cost is not in custo_total and
\* the flag stays true.
C20_FlagEHorizonte ==
    /\ [](\A s \in DOMAIN estoque :
            /\ Pendentes(s) \in {0, 1}
            /\ Processou("arrival", s) => now < horizon
            /\ (/\ ultimo_pedido[s].dia >= 0
                /\ ultimo_pedido[s].dia + ultimo_pedido[s].tempo >= horizon) =>
                /\ pedido_em_transito[s]
                /\ Pendentes(s) = 1
                /\ \E e \in queue :
                      /\ e.kind = "arrival" /\ e.site = s
                      /\ e.time >= horizon
            /\ pc = "done" =>
                /\ \A e \in queue : e.time >= horizon
                /\ pedido_em_transito[s] <=> Pendentes(s) = 1
                /\ pedido_em_transito[s] <=>
                     (/\ ultimo_pedido[s].dia >= 0
                      /\ ultimo_pedido[s].dia + ultimo_pedido[s].tempo
                           >= horizon)
            /\ estoque[s] = params[s].estoque_inicial
                            + 300 * contabil[s].chegadas
                            - contabil[s].demanda + vendas_perdidas[s]
            /\ custo_total[s] = contabil[s].custo_diario
                                + contabil[s].chegadas * CustoPedido(params[s]))
    /\ [][\A s \in DOMAIN estoque :
            (last' # last /\ Diario(last', s)) =>
                /\ pedido_em_transito[s] <=> Cardinality(EmVoo(s)) = 1
                /\ pedido_em_transito[s] <=> Pendentes(s) = 1
                /\ \A e \in EmVoo(s) : e.kind = "arrival"]_vars
\* the run has ended with an order that was due exactly at the horizon still
\* pending, after an earlier order of the same site arrived
C20_Witness ==
    \E s \in DOMAIN estoque :
        /\ pc = "done"
        /\ pedido_em_transito[s]
        /\ ultimo_pedido[s].dia + ultimo_pedido[s].tempo = horizon
        /\ contabil[s].pedidos = contabil[s].chegadas + 1
        /\ contabil[s].chegadas >= 1

====
